---------------------------- MODULE Spec2Model ----------------------------
(***************************************************************************)
(* Model of the canvas overlay service (src/index.js): the POST /overlay   *)
(* handler with its two outbound image loads, and the text pipeline it     *)
(* drives (hook classification and selection, formatForDisplay, wrapText). *)
(*                                                                         *)
(* A JavaScript string is a sequence of one-character strings.  A          *)
(* JavaScript value that may be missing or of another type is a record     *)
(* [t, s, n]: its typeof, its characters when it is a string, its number   *)
(* when it is a number.                                                    *)
(***************************************************************************)
EXTENDS Integers, Sequences, FiniteSets, TLC

VARIABLES
    pc,         \* position of the /overlay handler
    req,        \* the request body and the process environment
    resp,       \* the response sent, NoResponse until then
    load,       \* the loadImageFromUrl call in flight
    outcome,    \* how each image load ended
    attempts,   \* outbound fetches issued, per image
    canvas,     \* the drawing operations applied to the canvas, in order
    thrownAt,   \* the handler stage whose exception reached the catch
    op,         \* text pipeline: the function under evaluation and its stage
    arg,        \* text pipeline: the inputs drawn
    out         \* text pipeline: the values computed

vars == <<pc, req, resp, load, outcome, attempts, canvas, thrownAt, op, arg, out>>

handlerVars == <<pc, req, resp, load, outcome, attempts, canvas, thrownAt>>

textVars == <<op, arg, out>>

-----------------------------------------------------------------------------
(* Bounds of the model *)

\* longest enumerated input string of the formatter
MaxLen == 5

\* most content lines in an enumerated content
MaxLines == 2

\* widest wrap width tried, in glyphs
MaxCols == 4

-----------------------------------------------------------------------------
(* JavaScript values *)

Undefined == [t |-> "undefined", s |-> <<>>, n |-> 0]

Str(s) == [t |-> "string", s |-> s, n |-> 0]

Num(n) == [t |-> "number", s |-> <<>>, n |-> n]

\* ToBoolean: undefined, "" and 0 are falsy
Truthy(v) ==
    CASE v.t = "string" -> v.s # <<>>
      [] v.t = "number" -> v.n # 0
      [] OTHER -> FALSE

\* a || b
Or(a, b) == IF Truthy(a) THEN a ELSE b

-----------------------------------------------------------------------------
(* Characters and strings *)

LowerLetters ==
    <<"a", "b", "c", "d", "e", "f", "g", "h", "i", "j", "k", "l", "m",
      "n", "o", "p", "q", "r", "s", "t", "u", "v", "w", "x", "y", "z">>

UpperLetters ==
    <<"A", "B", "C", "D", "E", "F", "G", "H", "I", "J", "K", "L", "M",
      "N", "O", "P", "Q", "R", "S", "T", "U", "V", "W", "X", "Y", "Z">>

Digits == {"0", "1", "2", "3", "4", "5", "6", "7", "8", "9"}

Range(f) == {f[i] : i \in DOMAIN f}

LowerSet == Range(LowerLetters)

UpperSet == Range(UpperLetters)

\* the characters \s matches
SpaceChars == {" ", "\n", "\t"}

\* the characters \w matches
WordChars == LowerSet \cup UpperSet \cup Digits \cup {"_"}

UpperOf == [c \in LowerSet |-> UpperLetters[CHOOSE i \in 1..26 : LowerLetters[i] = c]]

LowerOf == [c \in UpperSet |-> LowerLetters[CHOOSE i \in 1..26 : UpperLetters[i] = c]]

IsSpace(c) == c \in SpaceChars

IsDigit(c) == c \in Digits

IsWordChar(c) == c \in WordChars

UpperChar(c) == IF c \in LowerSet THEN UpperOf[c] ELSE c

LowerChar(c) == IF c \in UpperSet THEN LowerOf[c] ELSE c

toUpperCase(s) == [i \in 1..Len(s) |-> UpperChar(s[i])]

toLowerCase(s) == [i \in 1..Len(s) |-> LowerChar(s[i])]

SetMin(S) == CHOOSE x \in S : \A y \in S : x <= y

SetMax(S) == CHOOSE x \in S : \A y \in S : x >= y

\* String.prototype.trim
trim(s) ==
    LET solid == {i \in 1..Len(s) : ~IsSpace(s[i])}
    IN  IF solid = {} THEN <<>> ELSE SubSeq(s, SetMin(solid), SetMax(solid))

\* String.prototype.includes
includes(s, sub) ==
    \E i \in 1..(Len(s) - Len(sub) + 1) : SubSeq(s, i, i + Len(sub) - 1) = sub

\* String.prototype.substring(0, n)
substring0(s, n) == SubSeq(s, 1, IF Len(s) < n THEN Len(s) ELSE n)

\* String.prototype.split on a class of one-character separators; empty pieces
\* are kept
split(s, separators) ==
    LET IsSepAt(i) == s[i] \in separators
        seps == SelectSeq([i \in 1..Len(s) |-> i], IsSepAt)
        n    == Len(seps)
    IN  [k \in 1..(n + 1) |->
            SubSeq(s, IF k = 1 THEN 1 ELSE seps[k - 1] + 1,
                      IF k = n + 1 THEN Len(s) ELSE seps[k] - 1)]

\* Array.prototype.join
RECURSIVE join(_, _)
join(parts, sep) ==
    IF parts = <<>> THEN <<>>
    ELSE IF Len(parts) = 1 THEN parts[1]
    ELSE parts[1] \o sep \o join(Tail(parts), sep)

\* the separators of content.split('\n'), excerpt.split('.'), line.split(' ')
\* and content.split(/[.!?]/)
Newline == {"\n"}

Dot == {"."}

Blank == {" "}

SentenceEnds == {".", "!", "?"}

IsSentenceEnd(c) == c \in SentenceEnds

-----------------------------------------------------------------------------
(* Text formatter: formatForDisplay *)

\* the placeholder returned for a missing or empty text
PlaceholderText ==
    <<"P", "R", "O", "F", "E", "S", "S", "I", "O", "N", "A", "L", " ", "I", "N", "S", "I", "G",
      "H", "T", "S">>

\* texts shorter than this are upper-cased as a whole
ShortTextLimit == 60

\* .replace(/\n/g, ' ')
ReplaceNewlines(s) == [i \in 1..Len(s) |-> IF s[i] = "\n" THEN " " ELSE s[i]]

\* .replace(/\s+/g, ' '): every maximal run of whitespace becomes one space
CollapseWhitespace(s) ==
    LET FirstOfRun(i) == ~IsSpace(s[i]) \/ i = 1 \/ ~IsSpace(s[i - 1])
        kept == SelectSeq([i \in 1..Len(s) |-> i], FirstOfRun)
    IN  [k \in 1..Len(kept) |-> IF IsSpace(s[kept[k]]) THEN " " ELSE s[kept[k]]]

\* the characters /[^\w\s.,!?:%-]/g leaves in place
DisplayChars == WordChars \cup SpaceChars \cup {".", ",", "!", "?", ":", "%", "-"}

IsDisplayChar(c) == c \in DisplayChars

\* .replace(/[^\w\s.,!?:%-]/g, '')
StripDisallowed(s) == SelectSeq(s, IsDisplayChar)

\* the value of `formatted` before the case conversion
CleanText(s) == StripDisallowed(trim(CollapseWhitespace(ReplaceNewlines(s))))

\* the alternatives of the keyword pattern, in the pattern's order
Keywords ==
    << <<"R", "E", "S", "U", "L", "T">>,
       <<"P", "O", "V">>,
       <<"H", "O", "T", " ", "T", "A", "K", "E">>,
       <<"M", "A", "T", "R", "I", "X">>,
       <<"S", "Y", "S", "T", "E", "M">>,
       <<"F", "R", "A", "M", "E", "W", "O", "R", "K">>,
       <<"T", "R", "A", "N", "S", "F", "O", "R", "M", "A", "T", "I", "O", "N">> >>

\* \b before position p (1..Len(s)+1): exactly one neighbour is a word character
WordBoundary(s, p) ==
    LET before == p > 1 /\ IsWordChar(s[p - 1])
        after  == p <= Len(s) /\ IsWordChar(s[p])
    IN  before # after

\* alternative k of /\b(...)\b/i matches at position i
KeywordAt(s, i, k) ==
    LET w == Keywords[k]
    IN  /\ i + Len(w) - 1 <= Len(s)
        /\ toUpperCase(SubSeq(s, i, i + Len(w) - 1)) = w
        /\ WordBoundary(s, i)
        /\ WordBoundary(s, i + Len(w))

\* the positions a match of the keyword pattern covers; a match is bounded by
\* \b on both sides, so two matches never overlap and every match is replaced
KeywordPositions(s) ==
    UNION {IF KeywordAt(s, i, k) THEN i..(i + Len(Keywords[k]) - 1) ELSE {} :
              i \in 1..Len(s), k \in 1..Len(Keywords)}

\* .replace(/\b(RESULT|POV|HOT TAKE|MATRIX|SYSTEM|FRAMEWORK|TRANSFORMATION)\b/gi, upper)
UppercaseKeywords(s) ==
    LET covered == KeywordPositions(s)
    IN  [i \in 1..Len(s) |-> IF i \in covered THEN UpperChar(s[i]) ELSE s[i]]

\* formatForDisplay without the upper-casing of short texts
formatForDisplayKeywordsOnly(text) ==
    IF ~Truthy(text) THEN PlaceholderText ELSE UppercaseKeywords(CleanText(text.s))

\* formatForDisplay(text), for text a string or undefined (its only callers'
\* arguments); the result is a string
formatForDisplay(text) ==
    IF ~Truthy(text) THEN PlaceholderText
    ELSE LET formatted == CleanText(text.s)
         IN  IF Len(formatted) < ShortTextLimit
             THEN toUpperCase(formatted)
             ELSE UppercaseKeywords(formatted)

-----------------------------------------------------------------------------
(* Layout engine: wrapText *)

\* rendered width of one glyph: ctx.measureText is taken for a fixed-pitch font
GlyphWidth == 30

\* ctx.measureText(s).width
measureText(s) == Len(s) * GlyphWidth

\* the matches of /(?<=[.!?])\s+/ in s, as <<first, last>> positions in order:
\* the maximal whitespace runs that start right after a sentence end
SentenceGaps(s) ==
    LET n == Len(s)
        StartsGap(i) == IsSpace(s[i]) /\ i > 1 /\ IsSentenceEnd(s[i - 1])
        EndsRun(i)   == IsSpace(s[i]) /\ (i = n \/ ~IsSpace(s[i + 1]))
        starts  == SelectSeq([i \in 1..n |-> i], StartsGap)
        runEnds == {i \in 1..n : EndsRun(i)}
    IN  [k \in 1..Len(starts) |-> <<starts[k], SetMin({e \in runEnds : e >= starts[k]})>>]

\* text.split(/(?<=[.!?])\s+/)
splitSentences(s) ==
    LET gaps == SentenceGaps(s)
        n    == Len(gaps)
    IN  [k \in 1..(n + 1) |->
            SubSeq(s, IF k = 1 THEN 1 ELSE gaps[k - 1][2] + 1,
                      IF k = n + 1 THEN Len(s) ELSE gaps[k][1] - 1)]

\* the first loop of wrapText: sentences accumulated greedily into lines
SentenceLines(sentences, maxWidth) ==
    LET st[k \in 0..Len(sentences)] ==
            IF k = 0 THEN [lines |-> <<>>, currentLine |-> <<>>]
            ELSE LET prev     == st[k - 1]
                     sentence == sentences[k]
                     testLine == IF prev.currentLine # <<>>
                                 THEN prev.currentLine \o <<" ">> \o sentence
                                 ELSE sentence
                 IN  IF measureText(testLine) > maxWidth /\ Len(prev.currentLine) > 0
                     THEN [lines |-> Append(prev.lines, prev.currentLine),
                           currentLine |-> sentence]
                     ELSE [lines |-> prev.lines, currentLine |-> testLine]
        end == st[Len(sentences)]
    IN  IF Len(end.currentLine) > 0 THEN Append(end.lines, end.currentLine) ELSE end.lines

\* the word-wrap fallback for one line wider than maxWidth
WordLines(line, maxWidth) ==
    LET words == split(line, Blank)
        st[i \in 1..Len(words)] ==
            IF i = 1 THEN [lines |-> <<>>, wordLine |-> words[1]]
            ELSE LET prev     == st[i - 1]
                     testLine == prev.wordLine \o <<" ">> \o words[i]
                 IN  IF measureText(testLine) > maxWidth /\ Len(prev.wordLine) > 0
                     THEN [lines |-> Append(prev.lines, prev.wordLine),
                           wordLine |-> words[i]]
                     ELSE [lines |-> prev.lines, wordLine |-> testLine]
        end == st[Len(words)]
    IN  IF Len(end.wordLine) > 0 THEN Append(end.lines, end.wordLine) ELSE end.lines

\* the second loop of wrapText
RECURSIVE FinalLines(_, _)
FinalLines(lines, maxWidth) ==
    IF lines = <<>> THEN <<>>
    ELSE (IF measureText(Head(lines)) <= maxWidth
          THEN <<Head(lines)>>
          ELSE WordLines(Head(lines), maxWidth)) \o FinalLines(Tail(lines), maxWidth)

\* wrapText(ctx, text, maxWidth), for text a string
wrapText(text, maxWidth) == FinalLines(SentenceLines(splitSentences(text), maxWidth), maxWidth)

-----------------------------------------------------------------------------
(* Inputs of the text formatter and the layout engine *)

\* the characters of the enumerated inputs: a letter, the two kinds of
\* whitespace the cleaning treats apart, a stripped character, a sentence end
FormatAlphabet == {"a", " ", "\n", "@", "."}

\* every string over FormatAlphabet of at most n characters
StringsUpTo(n) == UNION {[1..k -> FormatAlphabet] : k \in 0..n}

\* "your system gives every result a clear framework to follow." (59 characters)
Sample59 ==
    <<"y", "o", "u", "r", " ", "s", "y", "s", "t", "e", "m", " ", "g", "i", "v", "e", "s",
      " ", "e", "v", "e", "r", "y", " ", "r", "e", "s", "u", "l", "t", " ", "a", " ", "c",
      "l", "e", "a", "r", " ", "f", "r", "a", "m", "e", "w", "o", "r", "k", " ", "t", "o",
      " ", "f", "o", "l", "l", "o", "w", ".">>

\* "Our system gives every result a clearer framework to follow." (60 characters)
Sample60 ==
    <<"O", "u", "r", " ", "s", "y", "s", "t", "e", "m", " ", "g", "i", "v", "e", "s", " ",
      "e", "v", "e", "r", "y", " ", "r", "e", "s", "u", "l", "t", " ", "a", " ", "c", "l",
      "e", "a", "r", "e", "r", " ", "f", "r", "a", "m", "e", "w", "o", "r", "k", " ", "t",
      "o", " ", "f", "o", "l", "l", "o", "w", ".">>

\* 62 characters, 59 once the three '#' are stripped
SampleDecorated ==
    <<"#", "H", "o", "t", " ", "t", "a", "k", "e", "#", ":", " ", "t", "h", "e", " ", "m",
      "a", "t", "r", "i", "x", " ", "f", "r", "a", "m", "e", "w", "o", "r", "k", " ", "w",
      "i", "n", "s", " ", "e", "v", "e", "r", "y", " ", "s", "i", "n", "g", "l", "e", " ",
      "t", "i", "m", "e", " ", "a", "g", "a", "i", "n", "#">>

\* 71 characters; stripping the '&' leaves two adjacent spaces
SampleGapped ==
    <<"A", " ", "t", "r", "a", "n", "s", "f", "o", "r", "m", "a", "t", "i", "o", "n", " ",
      "&", " ", "a", " ", "r", "e", "s", "u", "l", "t", ":", " ", "t", "h", "e", " ", "s",
      "y", "s", "t", "e", "m", "a", "t", "i", "c", " ", "P", "O", "V", " ", "o", "f", " ",
      "e", "v", "e", "r", "y", " ", "h", "o", "t", " ", "t", "a", "k", "e", " ", "w", "i",
      "n", "s", ".">>

LongSamples == {Sample59, Sample60, SampleDecorated, SampleGapped}

\* the arguments formatForDisplay is applied to
FormatInputs == {Undefined} \cup {Str(s) : s \in StringsUpTo(MaxLen) \cup LongSamples}

\* the wrap widths tried: 1..MaxCols glyphs, and the handler's two widths
HeadlineMaxWidth == 950

SupportMaxWidth == 900

WrapWidths == {c * GlyphWidth : c \in 1..MaxCols} \cup {HeadlineMaxWidth, SupportMaxWidth}

NoText == [formatted |-> <<>>, again |-> <<>>, lines |-> <<>>, maxWidth |-> 0]

\* formatted = formatForDisplay(text)
ApplyFormat ==
    /\ op = "format"
    /\ op' = "formatted"
    /\ out' = [out EXCEPT !.formatted = formatForDisplay(arg)]
    /\ UNCHANGED <<arg, handlerVars>>

\* again = formatForDisplay(formatted)
ApplyFormatAgain ==
    /\ op = "formatted"
    /\ op' = "reformatted"
    /\ out' = [out EXCEPT !.again = formatForDisplay(Str(out.formatted))]
    /\ UNCHANGED <<arg, handlerVars>>

\* lines = wrapText(ctx, formatted, maxWidth)
ApplyWrap ==
    /\ op = "formatted"
    /\ \E w \in WrapWidths :
          out' = [out EXCEPT !.lines = wrapText(out.formatted, w), !.maxWidth = w]
    /\ op' = "wrapped"
    /\ UNCHANGED <<arg, handlerVars>>

-----------------------------------------------------------------------------
(* Text classifier: extractContentHooks *)

\* contentLines keeps the lines whose trimmed length exceeds this
MinLineLength == 10

\* a strong line is longer than StrongMin and shorter than StrongMax
StrongMin == 20

StrongMax == 80

\* /\d+%/.test(s)
HasPercentage(s) == \E i \in 1..(Len(s) - 1) : IsDigit(s[i]) /\ s[i + 1] = "%"

KwPov ==
    <<"p", "o", "v", ":">>

KwHotTake ==
    <<"h", "o", "t", " ", "t", "a", "k", "e">>

KwResult ==
    <<"r", "e", "s", "u", "l", "t", ":">>

KwTransform ==
    <<"t", "r", "a", "n", "s", "f", "o", "r", "m">>

KwChanges ==
    <<"c", "h", "a", "n", "g", "e", "s">>

KwFeel ==
    <<"f", "e", "e", "l">>

KwBeenThere ==
    <<"b", "e", "e", "n", " ", "t", "h", "e", "r", "e">>

KwWeveAll ==
    <<"w", "e", "'", "v", "e", " ", "a", "l", "l">>

KwMatrix ==
    <<"M", "a", "t", "r", "i", "x">>

KwSystem ==
    <<"S", "y", "s", "t", "e", "m">>

KwFramework ==
    <<"F", "r", "a", "m", "e", "w", "o", "r", "k">>

\* the categories extractContentHooks can set, in the order of its tests
Categories ==
    <<"statistic", "question", "pov", "hotTake", "result", "strong",
      "transformation", "relatable", "framework">>

\* the test of each category on a trimmed line
Matches(category, cleanLine) ==
    CASE category = "statistic" -> HasPercentage(cleanLine)
      [] category = "question" -> includes(cleanLine, <<"?">>)
      [] category = "pov" -> includes(toLowerCase(cleanLine), KwPov)
      [] category = "hotTake" -> includes(toLowerCase(cleanLine), KwHotTake)
      [] category = "result" -> includes(toLowerCase(cleanLine), KwResult)
      [] category = "strong" ->
            /\ Len(cleanLine) < StrongMax
            /\ Len(cleanLine) > StrongMin
            /\ ~includes(cleanLine, <<"?">>)
      [] category = "transformation" ->
            \/ includes(cleanLine, KwTransform)
            \/ includes(cleanLine, KwChanges)
            \/ includes(cleanLine, <<"=">>)
      [] category = "relatable" ->
            \/ includes(cleanLine, KwFeel)
            \/ includes(cleanLine, KwBeenThere)
            \/ includes(cleanLine, KwWeveAll)
      [] category = "framework" ->
            \/ includes(cleanLine, KwMatrix)
            \/ includes(cleanLine, KwSystem)
            \/ includes(cleanLine, KwFramework)

\* const hooks = {}
NoHooks == [c \in Range(Categories) |-> Undefined]

\* the callback without its `!hooks.<category>` tests: the last match wins
ClassifyLineLastWins(hooks, line) ==
    LET cleanLine == trim(line)
    IN  [c \in Range(Categories) |->
            IF Matches(c, cleanLine) THEN Str(cleanLine) ELSE hooks[c]]

\* the body of the forEach callback: each category still unset takes the line
\* when its test passes
ClassifyLine(hooks, line) ==
    LET cleanLine == trim(line)
    IN  [c \in Range(Categories) |->
            IF Matches(c, cleanLine) /\ ~Truthy(hooks[c]) THEN Str(cleanLine) ELSE hooks[c]]

\* extractContentHooks(contentLines)
extractContentHooks(contentLines) ==
    LET hooks[k \in 0..Len(contentLines)] ==
            IF k = 0 THEN NoHooks ELSE ClassifyLine(hooks[k - 1], contentLines[k])
    IN  hooks[Len(contentLines)]

\* the filter of contentLines: line.trim().length > 10
IsSubstantive(line) == Len(trim(line)) > MinLineLength

\* content.split('\n').filter(line => line.trim().length > 10)
ContentLines(content) == SelectSeq(split(content, Newline), IsSubstantive)

-----------------------------------------------------------------------------
(* Hook selector: generateEngagingHook *)

DefaultBenefit ==
    <<"S", "T", "R", "A", "T", "E", "G", "I", "C", " ", "I", "N", "S", "I", "G", "H", "T",
      "S", " ", "F", "O", "R", " ", "P", "R", "O", "F", "E", "S", "S", "I", "O", "N", "A",
      "L", "S">>

\* the call to action of every generator
CallToAction ==
    <<"L", "I", "N", "K", " ", "I", "N", " ", "B", "I", "O", " ", "UP_RIGHT_ARROW">>

BenefitKeywords ==
    << <<"3", "x">>,
       <<"f", "a", "s", "t", "e", "r">>,
       <<"a", "c", "c", "e", "l", "e", "r", "a", "t">>,
       <<"t", "r", "a", "n", "s", "f", "o", "r", "m">>,
       <<"r", "e", "v", "o", "l", "u", "t", "i", "o", "n", "a", "r">>,
       <<"m", "a", "s", "t", "e", "r">>,
       <<"b", "r", "e", "a", "k", "t", "h", "r", "o", "u", "g", "h">> >>

\* a benefit sentence has a trimmed length above this
MinBenefitLength == 10

\* without any sentence the first BenefitCut characters of the excerpt are used
BenefitCut == 100

\* a first sentence has a trimmed length above this
MinSentenceLength == 15

\* without any sentence the first SentenceCut characters of the content are used
SentenceCut == 80

IsBenefitSentence(s) == Len(trim(s)) > MinBenefitLength

HasBenefitKeyword(s) ==
    \E k \in 1..Len(BenefitKeywords) : includes(toLowerCase(s), BenefitKeywords[k])

\* extractKeyBenefit throws on excerpt.split when excerpt is truthy and no string
KeyBenefitThrows(excerpt) == Truthy(excerpt) /\ excerpt.t # "string"

\* extractKeyBenefit(excerpt), for excerpt falsy or a string
extractKeyBenefit(excerpt) ==
    IF ~Truthy(excerpt) THEN DefaultBenefit
    ELSE LET sentences == SelectSeq(split(excerpt.s, Dot), IsBenefitSentence)
             hits == {k \in 1..Len(sentences) : HasBenefitKeyword(sentences[k])}
         IN  IF hits # {} THEN trim(sentences[SetMin(hits)])
             ELSE IF sentences # <<>> /\ sentences[1] # <<>> THEN sentences[1]
             ELSE substring0(excerpt.s, BenefitCut)

IsLongSentence(s) == Len(trim(s)) > MinSentenceLength

\* extractFirstSentence(content), for content a string
extractFirstSentence(content) ==
    LET sentences == SelectSeq(split(content, SentenceEnds), IsLongSentence)
    IN  IF sentences # <<>> /\ trim(sentences[1]) # <<>>
        THEN trim(sentences[1])
        ELSE substring0(content, SentenceCut)

\* what a generator call leaves: an exception, or the object it returns
Threw == [threw |-> TRUE, headline |-> Undefined, support |-> Undefined, cta |-> Undefined]

\* the tail every generator shares: headline is a string; support is the hook
\* found or, evaluated only without one, extractKeyBenefit(excerpt)
HookContent(headline, supportHook, excerpt) ==
    IF ~Truthy(supportHook) /\ KeyBenefitThrows(excerpt) THEN Threw
    ELSE LET support == IF Truthy(supportHook) THEN supportHook
                        ELSE Str(extractKeyBenefit(excerpt))
         IN  [threw |-> FALSE,
              headline |-> Str(formatForDisplay(headline)),
              support |-> Str(formatForDisplay(support)),
              cta |-> Str(CallToAction)]

\* generators.linkedin with strong ahead of statistic
LinkedinGeneratorStrongFirst(hooks, content, excerpt) ==
    HookContent(Or(Or(hooks["strong"], hooks["statistic"]), Str(extractFirstSentence(content))),
                Or(hooks["result"], hooks["framework"]),
                excerpt)

\* generators.linkedin
LinkedinGenerator(hooks, content, excerpt) ==
    HookContent(Or(Or(hooks["statistic"], hooks["strong"]), Str(extractFirstSentence(content))),
                Or(hooks["result"], hooks["framework"]),
                excerpt)

\* generators.twitter; hooks.controversial and hooks.revelation are never set
TwitterGenerator(hooks, content, excerpt) ==
    HookContent(Or(Or(Or(hooks["hotTake"], Undefined), hooks["strong"]),
                   Str(extractFirstSentence(content))),
                Or(hooks["statistic"], Undefined),
                excerpt)

\* generators.instagram; hooks.aspirational and hooks.benefit are never set
InstagramGenerator(hooks, content, excerpt) ==
    HookContent(Or(Or(Or(hooks["pov"], hooks["transformation"]), Undefined),
                   Str(extractFirstSentence(content))),
                Or(Undefined, hooks["transformation"]),
                excerpt)

\* generators.facebook; hooks.story and hooks.solution are never set
FacebookGenerator(hooks, content, excerpt) ==
    HookContent(Or(Or(Or(hooks["question"], hooks["relatable"]), Undefined),
                   Str(extractFirstSentence(content))),
                Or(Undefined, Undefined),
                excerpt)

\* the platforms with an own entry in every lookup table
KnownPlatforms == {"linkedin", "twitter", "instagram", "facebook"}

\* property names every object literal inherits from Object.prototype: the
\* lookup table[platform] finds them although the table does not list them
InheritedKeys == {"constructor", "__proto__"}

\* the generator run for a platform with an own entry
OwnGenerator(platform, hooks, content, excerpt) ==
    CASE platform = "linkedin" -> LinkedinGenerator(hooks, content, excerpt)
      [] platform = "twitter" -> TwitterGenerator(hooks, content, excerpt)
      [] platform = "instagram" -> InstagramGenerator(hooks, content, excerpt)
      [] platform = "facebook" -> FacebookGenerator(hooks, content, excerpt)

\* calling an inherited entry as generator(): Object() returns an object
\* without headline, support or cta; Object.prototype is not callable
InheritedGenerator(platform) ==
    IF platform = "constructor"
    THEN [threw |-> FALSE, headline |-> Undefined, support |-> Undefined, cta |-> Undefined]
    ELSE Threw

\* const generator = generators[platform] || generators.linkedin; generator()
RunGenerator(platform, hooks, content, excerpt) ==
    IF platform \in KnownPlatforms THEN OwnGenerator(platform, hooks, content, excerpt)
    ELSE IF platform \in InheritedKeys THEN InheritedGenerator(platform)
    ELSE LinkedinGenerator(hooks, content, excerpt)

\* generateEngagingHook(platform, title, content, excerpt); content.split
\* throws when content is no string
generateEngagingHook(platform, title, content, excerpt) ==
    IF content.t # "string" THEN Threw
    ELSE RunGenerator(platform, extractContentHooks(ContentLines(content.s)), content.s, excerpt)

-----------------------------------------------------------------------------
(* Platform styles *)

\* a table entry inherited from Object.prototype, as the lookup returns it
Inherited == [t |-> "inherited", s |-> <<>>, n |-> 0]

MainFonts ==
    [linkedin |-> "bold 52px Arial", twitter |-> "bold 48px Arial",
     instagram |-> "bold 56px Arial", facebook |-> "bold 50px Arial"]

MainLineHeights == [linkedin |-> 58, twitter |-> 54, instagram |-> 62, facebook |-> 56]

SupportFonts ==
    [linkedin |-> "normal 28px Arial", twitter |-> "normal 26px Arial",
     instagram |-> "normal 30px Arial", facebook |-> "normal 27px Arial"]

MainTextColors ==
    [linkedin |-> "#FFFFFF", twitter |-> "#FFD700",
     instagram |-> "#FF69B4", facebook |-> "#87CEEB"]

\* the literal getMainLineHeight falls back to
DefaultLineHeight == 58

\* the literal getMainTextColor falls back to
DefaultTextColor == "#FFFFFF"

\* getMainFont(platform): fonts[platform] || fonts.linkedin
getMainFont(platform) ==
    IF platform \in KnownPlatforms THEN MainFonts[platform]
    ELSE IF platform \in InheritedKeys THEN "inherited"
    ELSE MainFonts["linkedin"]

\* getMainLineHeight(platform): heights[platform] || 58
getMainLineHeight(platform) ==
    IF platform \in KnownPlatforms THEN Num(MainLineHeights[platform])
    ELSE IF platform \in InheritedKeys THEN Inherited
    ELSE Num(DefaultLineHeight)

\* getSupportFont(platform): fonts[platform] || fonts.linkedin
getSupportFont(platform) ==
    IF platform \in KnownPlatforms THEN SupportFonts[platform]
    ELSE IF platform \in InheritedKeys THEN "inherited"
    ELSE SupportFonts["linkedin"]

\* getMainTextColor(platform): colors[platform] || '#FFFFFF'
getMainTextColor(platform) ==
    IF platform \in KnownPlatforms THEN MainTextColors[platform]
    ELSE IF platform \in InheritedKeys THEN "inherited"
    ELSE DefaultTextColor

\* the four style values of a platform
PlatformStyle(platform) ==
    [font |-> getMainFont(platform), lineHeight |-> getMainLineHeight(platform),
     supportFont |-> getSupportFont(platform), textColor |-> getMainTextColor(platform)]

-----------------------------------------------------------------------------
(* HTTP endpoint: POST /overlay *)

Images == {"background", "logo"}

\* the result of a load that ended with the decoded image
Loaded == "loaded"

\* the messages of the errors loadImageFromUrl rejects with
AbortMessage == "The user aborted a request."

StatusMessage == "Failed to load image: 404 Not Found"

NetworkMessage == "request to the image host failed"

DecodeMessage == "Unsupported image type"

LoadErrors == {AbortMessage, StatusMessage, NetworkMessage, DecodeMessage}

\* the messages of the TypeErrors the handler's own code raises
LogMessage == "title?.substring is not a function"

HookMessage == "generateEngagingHook threw a TypeError"

LayoutMessage == "Cannot read properties of undefined (reading 'split')"

MissingMessage == "Missing background_url or content"

NoHookContent ==
    [threw |-> FALSE, headline |-> Undefined, support |-> Undefined, cta |-> Undefined]

NoResponse ==
    [status |-> 0, success |-> FALSE, error |-> "", stack |-> FALSE,
     platform |-> "", hook_used |-> NoHookContent]

\* res.status(400).json({ error })
BadRequest == [NoResponse EXCEPT !.status = 400, !.error = MissingMessage]

\* the catch block attaching the stack under every NODE_ENV but production
ServerErrorStackOutsideProduction(message, nodeEnv) ==
    [NoResponse EXCEPT !.status = 500, !.error = message,
                       !.stack = (nodeEnv # "production")]

\* the catch block: res.status(500).json({ error: error.message, stack })
ServerError(message, nodeEnv) ==
    [NoResponse EXCEPT !.status = 500, !.error = message,
                       !.stack = (nodeEnv = "development")]

\* res.json({ success: true, ..., platform, hook_used })
Success(platform, hookContent) ==
    [NoResponse EXCEPT !.status = 200, !.success = TRUE,
                       !.platform = platform, !.hook_used = hookContent]

\* title?.substring(0, 50) throws when title is neither nullish nor a string
LoggingThrows(title) == title.t \notin {"undefined", "string"}

NoLoad == [phase |-> "idle", timer |-> FALSE]

\* loadImageFromUrl up to its first await: the timer is armed, the fetch issued
StartLoad(image) ==
    /\ load' = [phase |-> "response", timer |-> TRUE]
    /\ attempts' = [attempts EXCEPT ![image] = @ + 1]

\* a drawing operation: a layer and, for a text layer, its lines
Layer(kind, lines) == [kind |-> kind, lines |-> lines]

\* the text drawn: the wrapped headline, the wrapped support text if there is
\* one, and the call to action
TextLayers(hookContent) ==
    <<Layer("headline", wrapText(hookContent.headline.s, HeadlineMaxWidth))>>
    \o (IF Truthy(hookContent.support)
        THEN <<Layer("support", wrapText(hookContent.support.s, SupportMaxWidth))>>
        ELSE <<>>)
    \o <<Layer("cta", <<hookContent.cta.s>>)>>

\* the handler after generateEngagingHook returned or threw: the text layers are
\* drawn over the layers drawn so far and the response is sent
Draw(layers, hookContent) ==
    IF hookContent.threw
    THEN [resp |-> ServerError(HookMessage, req.NODE_ENV), canvas |-> layers,
          thrownAt |-> "hook"]
    ELSE IF hookContent.headline.t # "string"
    THEN [resp |-> ServerError(LayoutMessage, req.NODE_ENV), canvas |-> layers,
          thrownAt |-> "layout"]
    ELSE [resp |-> Success(req.platform, hookContent),
          canvas |-> layers \o TextLayers(hookContent),
          thrownAt |-> "none"]

\* the handler from generateEngagingHook to the response, which runs without
\* suspending: the state it leaves from the layers drawn so far
Compose(layers) ==
    Draw(layers, generateEngagingHook(req.platform, req.title, req.content, req.excerpt))

\* the handler's catch block, reached from the given stage
RespondError(message, stage) ==
    /\ resp' = ServerError(message, req.NODE_ENV)
    /\ thrownAt' = stage
    /\ pc' = "done"

\* the handler from its entry to its first await
HandleRequest ==
    /\ pc = "start"
    /\ IF LoggingThrows(req.title)
       THEN /\ RespondError(LogMessage, "log")
            /\ UNCHANGED <<load, attempts, canvas>>
       ELSE IF ~Truthy(req.background_url) \/ ~Truthy(req.content)
       THEN /\ resp' = BadRequest
            /\ pc' = "done"
            /\ UNCHANGED <<load, attempts, canvas, thrownAt>>
       ELSE /\ StartLoad("background")
            /\ pc' = "background"
            /\ UNCHANGED <<resp, canvas, thrownAt>>
    /\ UNCHANGED <<req, outcome, textVars>>

\* the background load resolved: the image and the overlay are drawn and the
\* logo load starts
BackgroundLoaded ==
    /\ canvas' = canvas \o <<Layer("background", <<>>), Layer("overlay", <<>>)>>
    /\ StartLoad("logo")
    /\ pc' = "logo"
    /\ UNCHANGED <<resp, thrownAt>>

\* the background failure swallowed as the logo's is
BackgroundFailureSwallowed(message) == BackgroundLoaded

\* the background load rejected: the exception reaches the handler's catch
BackgroundFailed(message) ==
    /\ RespondError(message, "background")
    /\ load' = NoLoad
    /\ UNCHANGED <<attempts, canvas>>

\* the handler after the logo try/catch, given the layers drawn so far
Finish(layers) ==
    \E end \in {Compose(layers)} :
        /\ resp' = end.resp
        /\ canvas' = end.canvas
        /\ thrownAt' = end.thrownAt
        /\ pc' = "done"
        /\ load' = NoLoad
        /\ UNCHANGED attempts

\* the logo failure left to the handler's catch
LogoFailureRethrown(message) ==
    /\ RespondError(message, "logo")
    /\ load' = NoLoad
    /\ UNCHANGED <<attempts, canvas>>

\* the logo load rejected: the inner catch logs a warning and the handler goes on
LogoFailed(message) == Finish(canvas)

\* the logo load resolved: the logo is drawn and the handler goes on
LogoLoaded == Finish(Append(canvas, Layer("logo", <<>>)))

\* the await wrapped in a retry: a rejected load is issued once more
SettleRetryingOnce(image, result) ==
    IF result # Loaded /\ attempts[image] < 2
    THEN /\ StartLoad(image)
         /\ UNCHANGED <<pc, resp, outcome, canvas, thrownAt, req, textVars>>
    ELSE /\ outcome' = [outcome EXCEPT ![image] = result]
         /\ IF image = "background"
            THEN IF result = Loaded THEN BackgroundLoaded ELSE BackgroundFailed(result)
            ELSE IF result = Loaded THEN LogoLoaded ELSE LogoFailed(result)
         /\ UNCHANGED <<req, textVars>>

\* the await of loadImageFromUrl settles with result
Settle(image, result) ==
    /\ outcome' = [outcome EXCEPT ![image] = result]
    /\ IF image = "background"
       THEN IF result = Loaded THEN BackgroundLoaded ELSE BackgroundFailed(result)
       ELSE IF result = Loaded THEN LogoLoaded ELSE LogoFailed(result)
    /\ UNCHANGED <<req, textVars>>

\* the load of the image the handler awaits is in the given phase
Awaiting(image, phase) == pc = image /\ load.phase = phase

\* fetch resolves with the response headers: the timer is cleared, then a
\* non-2xx status throws and a 2xx status goes on to response.buffer()
ResponseArrives(image) ==
    /\ Awaiting(image, "response")
    /\ \E ok \in BOOLEAN :
          IF ok
          THEN /\ load' = [phase |-> "body", timer |-> FALSE]
               /\ UNCHANGED <<pc, resp, outcome, attempts, canvas, thrownAt, req, textVars>>
          ELSE Settle(image, StatusMessage)

\* fetch rejects: the host cannot be reached
FetchRejects(image) ==
    /\ Awaiting(image, "response")
    /\ Settle(image, NetworkMessage)

\* the 10 s timer fires while it is armed: controller.abort() rejects the
\* pending fetch or body read with an AbortError
TimerFires(image) ==
    /\ pc = image
    /\ load.timer
    /\ load.phase \in {"response", "body"}
    /\ Settle(image, AbortMessage)

\* response.buffer() resolves with the bytes
BodyArrives(image) ==
    /\ Awaiting(image, "body")
    /\ load' = [load EXCEPT !.phase = "decode"]
    /\ UNCHANGED <<pc, resp, outcome, attempts, canvas, thrownAt, req, textVars>>

\* response.buffer() rejects: the body stream fails
BodyFails(image) ==
    /\ Awaiting(image, "body")
    /\ Settle(image, NetworkMessage)

\* loadImage(buffer) resolves or rejects
ImageDecoded(image) ==
    /\ Awaiting(image, "decode")
    /\ \E ok \in BOOLEAN : Settle(image, IF ok THEN Loaded ELSE DecodeMessage)

-----------------------------------------------------------------------------
(* Requests *)

\* the scenario content of the specification, one line of 71 characters
ScenarioContent ==
    <<"O", "u", "r", " ", "L", "e", "a", "d", "e", "r", "s", "h", "i", "p", " ", "M", "a",
      "t", "r", "i", "x", " ", "h", "e", "l", "p", "e", "d", " ", "8", "7", "%", " ", "o",
      "f", " ", "c", "l", "i", "e", "n", "t", "s", ".", " ", "R", "e", "s", "u", "l", "t",
      ":", " ", "f", "a", "s", "t", "e", "r", " ", "p", "r", "o", "m", "o", "t", "i", "o",
      "n", "s", ".">>

\* a content of two lines without statistic, result or framework
PlainContent ==
    <<"M", "e", "n", "t", "o", "r", "s", " ", "h", "e", "l", "p", " ", "p", "e", "o", "p",
      "l", "e", " ", "g", "r", "o", "w", " ", "e", "v", "e", "r", "y", " ", "d", "a", "y",
      "\n", "S", "m", "a", "l", "l", " ", "s", "t", "e", "p", "s">>

SampleUrl ==
    <<"h", "t", "t", "p", "s", ":", "/", "/", "i", "m", "g", "/", "b", "g", ".", "p", "n",
      "g">>

SampleTitle ==
    <<"L", "e", "a", "d", "e", "r", "s", "h", "i", "p">>

\* an excerpt whose second sentence holds a benefit keyword
SampleExcerpt ==
    <<"M", "e", "n", "t", "o", "r", "i", "n", "g", " ", "t", "h", "a", "t", " ", "w", "o",
      "r", "k", "s", ".", " ", "O", "u", "r", " ", "c", "l", "i", "e", "n", "t", "s", " ",
      "a", "r", "e", " ", "p", "r", "o", "m", "o", "t", "e", "d", " ", "3", "x", " ", "f",
      "a", "s", "t", "e", "r", ".">>

Platforms == KnownPlatforms \cup InheritedKeys \cup {"undefined", "tiktok"}

Environments == {"production", "development", "test", "unset"}

\* the JSON bodies a client may send, with the NODE_ENV of the process
Requests ==
    [background_url : {Undefined, Str(<<>>), Str(SampleUrl)},
     content : {Undefined, Str(<<>>), Num(42), Str(ScenarioContent), Str(PlainContent)},
     platform : Platforms,
     title : {Undefined, Str(SampleTitle), Num(42)},
     excerpt : {Undefined, Str(SampleExcerpt), Num(7)},
     NODE_ENV : Environments]

NoRequest ==
    [background_url |-> Undefined, content |-> Undefined, platform |-> "undefined",
     title |-> Undefined, excerpt |-> Undefined, NODE_ENV |-> "unset"]

\* the text pipeline at rest
TextIdle == op = "none" /\ arg = Undefined /\ out = NoText

\* the handler at rest
HandlerIdle ==
    /\ pc = "idle"
    /\ req = NoRequest
    /\ resp = NoResponse
    /\ load = NoLoad
    /\ outcome = [i \in Images |-> "none"]
    /\ attempts = [i \in Images |-> 0]
    /\ canvas = <<>>
    /\ thrownAt = "none"

-----------------------------------------------------------------------------
(* Specification of the endpoint: one request from arrival to response *)

Init ==
    /\ pc = "start"
    /\ req \in Requests
    /\ resp = NoResponse
    /\ load = NoLoad
    /\ outcome = [i \in Images |-> "none"]
    /\ attempts = [i \in Images |-> 0]
    /\ canvas = <<>>
    /\ thrownAt = "none"
    /\ TextIdle

Next ==
    \/ HandleRequest
    \/ \E image \in Images :
          \/ ResponseArrives(image)
          \/ FetchRejects(image)
          \/ TimerFires(image)
          \/ BodyArrives(image)
          \/ BodyFails(image)
          \/ ImageDecoded(image)

Spec == Init /\ [][Next]_vars

-----------------------------------------------------------------------------
(* Specification of the text formatter and the layout engine *)

FormatInit ==
    /\ op = "format"
    /\ arg \in FormatInputs
    /\ out = NoText
    /\ HandlerIdle

FormatNext == ApplyFormat \/ ApplyFormatAgain \/ ApplyWrap

FormatSpec == FormatInit /\ [][FormatNext]_vars

-----------------------------------------------------------------------------
(* Specification of the text classifier and the hook selector *)

\* a statistic on a line too short for contentLines (6 characters)
LineShortStat ==
    <<"U", "p", " ", "5", "0", "%">>

LineStat ==
    <<"R", "e", "v", "e", "n", "u", "e", " ", "g", "r", "e", "w", " ", "6", "0", "%", " ",
      "a", "f", "t", "e", "r", " ", "t", "h", "e", " ", "l", "a", "u", "n", "c", "h">>

\* a statistic between leading and trailing spaces
LinePaddedStat ==
    <<" ", " ", "C", "h", "u", "r", "n", " ", "f", "e", "l", "l", " ", "3", "0", "%", " ",
      "t", "h", "i", "s", " ", "y", "e", "a", "r", " ", " ">>

LineResult ==
    <<"R", "e", "s", "u", "l", "t", ":", " ", "f", "a", "s", "t", "e", "r", " ", "p", "r",
      "o", "m", "o", "t", "i", "o", "n", "s", " ", "f", "o", "r", " ", "a", "l", "l">>

LineQuestion ==
    <<"W", "h", "y", " ", "d", "o", " ", "m", "o", "s", "t", " ", "t", "e", "a", "m", "s",
      " ", "s", "t", "a", "l", "l", " ", "s", "o", " ", "e", "a", "r", "l", "y", "?">>

\* exactly 20 characters
Line20 ==
    <<"M", "e", "n", "t", "o", "r", "s", " ", "b", "u", "i", "l", "d", " ", "t", "r", "u",
      "s", "t", ".">>

\* exactly 80 characters
Line80 ==
    <<"E", "v", "e", "r", "y", " ", "m", "e", "n", "t", "o", "r", " ", "i", "n", " ", "o",
      "u", "r", " ", "p", "r", "o", "g", "r", "a", "m", " ", "c", "o", "m", "m", "i", "t",
      "s", " ", "t", "o", " ", "o", "n", "e", " ", "h", "o", "u", "r", " ", "a", " ", "w",
      "e", "e", "k", " ", "w", "i", "t", "h", " ", "e", "a", "c", "h", " ", "o", "f", " ",
      "t", "h", "e", " ", "m", "e", "n", "t", "e", "e", "s", ".">>

LinePool ==
    {LineShortStat, LineStat, LinePaddedStat, ScenarioContent, LineResult, LineQuestion,
     Line20, Line80}

\* the non-empty contents of at most n lines of the pool
ContentsUpTo(n) == {join(ls, <<"\n">>) : ls \in UNION {[1..k -> LinePool] : k \in 1..n}}

HookInputs ==
    [platform : Platforms,
     content : {Str(c) : c \in ContentsUpTo(MaxLines)},
     excerpt : {Undefined, Str(SampleExcerpt), Num(7)}]

NoHookOutput ==
    [lines |-> <<>>, hooks |-> NoHooks, hookContent |-> NoHookContent,
     style |-> PlatformStyle("linkedin")]

\* contentLines and hooks, as generateEngagingHook computes them first
ApplyClassify ==
    /\ op = "content"
    /\ op' = "classified"
    /\ \E lines \in {ContentLines(arg.content.s)} :
          out' = [out EXCEPT !.lines = lines, !.hooks = extractContentHooks(lines)]
    /\ UNCHANGED <<arg, handlerVars>>

\* hookContent = generateEngagingHook(platform, title, content, excerpt), and
\* the style values the handler reads for the platform
ApplySelect ==
    /\ op = "classified"
    /\ op' = "selected"
    /\ out' = [out EXCEPT
                  !.hookContent = generateEngagingHook(arg.platform, Undefined,
                                                       arg.content, arg.excerpt),
                  !.style = PlatformStyle(arg.platform)]
    /\ UNCHANGED <<arg, handlerVars>>

HookInit ==
    /\ op = "content"
    /\ arg \in HookInputs
    /\ out = NoHookOutput
    /\ HandlerIdle

HookNext == ApplyClassify \/ ApplySelect

HookSpec == HookInit /\ [][HookNext]_vars

-----------------------------------------------------------------------------
(* Properties of the endpoint, under Spec *)

\* the request lacks background_url or content: absent or empty
LacksRequiredField(r) == ~Truthy(r.background_url) \/ ~Truthy(r.content)

\* C1: a request that lacks background_url or content is answered with 400,
\* never with 500 and never with success, whatever its other fields hold
MissingFieldsAnswered400 ==
    (pc = "done" /\ LacksRequiredField(req)) => (resp.status = 400 /\ ~resp.success)

LayerKinds == {canvas[i].kind : i \in DOMAIN canvas}

\* the text fields are as the data model types them, and the platform is no
\* name the lookup tables inherit
TextWellTyped(r) ==
    /\ r.content.t = "string"
    /\ r.excerpt.t \in {"undefined", "string"}
    /\ r.platform \notin InheritedKeys

\* C2: a failed logo load never fails the request: the handler goes on without
\* the logo, nothing reaches the catch block from the logo stage, and the
\* response has success:true whenever the text stage itself does not throw
LogoFailureNotFatal ==
    (pc = "done" /\ outcome["logo"] \in LoadErrors) =>
        /\ outcome["background"] = Loaded
        /\ "background" \in LayerKinds
        /\ "logo" \notin LayerKinds
        /\ thrownAt \in {"none", "hook", "layout"}
        /\ (resp.status = 200 /\ resp.success) <=> thrownAt = "none"
        /\ resp.status \in {200, 500}
        /\ TextWellTyped(req) => (resp.success /\ "cta" \in LayerKinds)

\* C2 witness: the logo fetch timed out and the response is a success
LogoTimedOutYetSuccess ==
    /\ pc = "done"
    /\ outcome["logo"] = AbortMessage
    /\ resp.success
    /\ "logo" \notin LayerKinds

\* C3: while a load waits for the response or reads the body, the 10 s timer
\* is armed, so that the load cannot outlast it and the request is answered
TimerCoversEveryPhase ==
    \A image \in Images :
        (pc = image /\ load.phase \in {"response", "body"}) => load.timer

\* C4: a failed background load is fatal: the response is a 500 with the
\* error's message, never a success, and nothing more is composed
BackgroundFailureFatal ==
    (outcome["background"] \in LoadErrors) =>
        /\ pc = "done"
        /\ resp.status = 500
        /\ resp.error = outcome["background"]
        /\ ~resp.success
        /\ thrownAt = "background"
        /\ canvas = <<>>
        /\ attempts["logo"] = 0
        /\ outcome["logo"] = "none"

\* C4 witness: the background bytes did not decode and the 500 was sent
BackgroundUndecodable500 ==
    /\ outcome["background"] = DecodeMessage
    /\ resp.status = 500
    /\ resp.error = DecodeMessage

\* the message of the error the catch block received, by the stage that threw
FailureMessage ==
    CASE thrownAt = "log" -> LogMessage
      [] thrownAt = "background" -> outcome["background"]
      [] thrownAt = "hook" -> HookMessage
      [] thrownAt = "layout" -> LayoutMessage
      [] OTHER -> ""

\* C12, as claimed: every 500 carries the error's message, and carries the
\* stack exactly when NODE_ENV is not production, unset included
StackOutsideProduction ==
    resp.status = 500 =>
        /\ resp.error = FailureMessage
        /\ resp.stack <=> req.NODE_ENV # "production"

\* C12, amended: every internal failure is answered with a 500 that carries
\* the error's message, and the 500 carries the stack exactly when NODE_ENV is
\* development; in production, under any other value and unset it has none
StackInDevelopmentOnly ==
    /\ (pc = "done" /\ thrownAt # "none") <=> resp.status = 500
    /\ resp.status = 500 =>
          /\ resp.error = FailureMessage
          /\ resp.error # ""
          /\ ~resp.success
          /\ resp.stack <=> req.NODE_ENV = "development"
    /\ resp.status # 500 => ~resp.stack

\* C12 witness: a failed background load answered with a 500 that carries the
\* message and no stack, NODE_ENV being unset
UnsetEnvironmentNoStack ==
    /\ pc = "done"
    /\ req.NODE_ENV = "unset"
    /\ resp.status = 500
    /\ resp.error = NetworkMessage
    /\ ~resp.stack

\* C13, as claimed: when the request is answered, the background and the logo
\* have each been fetched exactly once, whatever path the handler took
EachFetchExactlyOnce ==
    pc = "done" => \A image \in Images : attempts[image] = 1

\* the handler reaches its first load: the logging line does not throw and
\* both required fields are present
ReachesLoad(r) == ~LoggingThrows(r.title) /\ ~LacksRequiredField(r)

\* C13, amended: no fetch is ever issued twice; when the request is answered
\* the background has been fetched once if the handler reached its load and
\* not at all otherwise, and the logo once if the background loaded and not at
\* all otherwise
NoFetchRepeated ==
    /\ \A image \in Images : attempts[image] <= 1
    /\ pc = "done" =>
          /\ attempts["background"] = 1 <=> ReachesLoad(req)
          /\ attempts["logo"] = 1 <=> outcome["background"] = Loaded
          /\ resp.success => \A image \in Images : attempts[image] = 1

\* C13 witness: the logo answered 404 and the request is answered, each image
\* fetched once
LogoRejectedFetchedOnce ==
    /\ pc = "done"
    /\ outcome["logo"] = StatusMessage
    /\ attempts["background"] = 1
    /\ attempts["logo"] = 1

-----------------------------------------------------------------------------
(* Properties of the text formatter and the layout engine, under FormatSpec *)

\* C5: formatForDisplay applied to its own result returns that result
FormatIdempotent == op = "reformatted" => out.again = out.formatted

\* the words of a text, as wrapText splits them, all fit the width
NoWordWider(text, maxWidth) ==
    \A w \in Range(split(text, Blank)) : measureText(w) <= maxWidth

\* C7: for a formatted text without a word wider than maxWidth, the lines of
\* wrapText joined with single spaces are the text
WrapJoinsBack ==
    (op = "wrapped" /\ NoWordWider(out.formatted, out.maxWidth)) =>
        join(out.lines, <<" ">>) = out.formatted

\* the cleaned form of an input: whitespace collapsed and trimmed, disallowed
\* characters stripped; a missing input has none
Cleaned(text) == IF text.t = "string" THEN CleanText(text.s) ELSE <<>>

\* C10, as claimed: every input whose cleaned form is shorter than 60
\* characters is formatted to the uppercase of its cleaned form
ShortTextUppercased ==
    (op # "format" /\ Len(Cleaned(arg)) < ShortTextLimit) =>
        out.formatted = toUpperCase(Cleaned(arg))

\* C10, amended: every non-empty input string whose cleaned form is shorter
\* than 60 characters is formatted to the uppercase of its cleaned form; a
\* missing or empty input is formatted to the placeholder
NonEmptyShortTextUppercased ==
    op # "format" =>
        IF Truthy(arg)
        THEN Len(Cleaned(arg)) < ShortTextLimit => out.formatted = toUpperCase(Cleaned(arg))
        ELSE out.formatted = PlaceholderText

\* C10 witness: a 62-character input of 59 cleaned characters, upper-cased
DecoratedSampleUppercased ==
    /\ op = "formatted"
    /\ arg = Str(SampleDecorated)
    /\ Len(out.formatted) = ShortTextLimit - 1
    /\ out.formatted = toUpperCase(out.formatted)
    /\ out.formatted # CleanText(SampleDecorated)

-----------------------------------------------------------------------------
(* Properties of the classifier and the selector, under HookSpec *)

\* every line of a content, as content.split('\n') yields them
AllLines(content) == split(content, Newline)

\* the positions of the lines that hold digits followed by '%'
PercentageLines(lines) == {k \in 1..Len(lines) : HasPercentage(lines[k])}

\* C6, as claimed: when some line of the content holds digits followed by
\* '%', statistic is the first such line of the content
StatisticIsFirstMatch ==
    op # "content" =>
        LET lines == AllLines(arg.content.s)
            hits  == PercentageLines(lines)
        IN  hits # {} => out.hooks["statistic"] = Str(trim(lines[SetMin(hits)]))

\* C6, amended: among the lines whose trimmed length exceeds 10, statistic is
\* the first one (trimmed) that holds digits followed by '%', never a later
\* one; without such a line statistic is absent
StatisticIsFirstSubstantiveMatch ==
    op # "content" =>
        LET lines == AllLines(arg.content.s)
            hits  == {k \in PercentageLines(lines) : Len(trim(lines[k])) > MinLineLength}
        IN  IF hits # {}
            THEN out.hooks["statistic"] = Str(trim(lines[SetMin(hits)]))
            ELSE out.hooks["statistic"] = Undefined

\* C6 witness: a content of two statistic lines; the first of the two,
\* trimmed, is the statistic
FirstOfTwoStatistics ==
    /\ op = "classified"
    /\ arg.content = Str(LinePaddedStat \o <<"\n">> \o LineStat)
    /\ out.hooks["statistic"] = Str(trim(LinePaddedStat))
    /\ out.hooks["statistic"] # Str(LinePaddedStat)

\* C8: a platform that is none of the four has linkedin's fonts, line height
\* and colour and linkedin's hook content, exception or none alike
UnknownPlatformIsLinkedin ==
    (op = "selected" /\ arg.platform \notin KnownPlatforms) =>
        /\ out.style = PlatformStyle("linkedin")
        /\ out.hookContent =
              generateEngagingHook("linkedin", Undefined, arg.content, arg.excerpt)

\* a || b || c over values that may be absent
FirstAvailable(a, b, c) == IF a # Undefined THEN a ELSE IF b # Undefined THEN b ELSE c

\* the headline and the support of the scenario content
ScenarioFormatted ==
    <<"O", "u", "r", " ", "L", "e", "a", "d", "e", "r", "s", "h", "i", "p", " ", "M", "A",
      "T", "R", "I", "X", " ", "h", "e", "l", "p", "e", "d", " ", "8", "7", "%", " ", "o",
      "f", " ", "c", "l", "i", "e", "n", "t", "s", ".", " ", "R", "E", "S", "U", "L", "T",
      ":", " ", "f", "a", "s", "t", "e", "r", " ", "p", "r", "o", "m", "o", "t", "i", "o",
      "n", "s", ".">>

LinkedinCta ==
    <<"L", "I", "N", "K", " ", "I", "N", " ", "B", "I", "O", " ", "UP_RIGHT_ARROW">>

\* C9: for linkedin and an excerpt that is a string or absent, the headline is
\* formatForDisplay of the first of statistic, strong, first sentence; the
\* support is formatForDisplay of the first of result, framework, key benefit;
\* the cta is the literal; the scenario content yields its statistic line as
\* headline and its result line as support
LinkedinSelection ==
    (op = "selected" /\ arg.platform = "linkedin" /\ arg.excerpt.t # "number") =>
        /\ ~out.hookContent.threw
        /\ out.hookContent.headline =
              Str(formatForDisplay(FirstAvailable(out.hooks["statistic"], out.hooks["strong"],
                                                  Str(extractFirstSentence(arg.content.s)))))
        /\ out.hookContent.support =
              Str(formatForDisplay(FirstAvailable(out.hooks["result"], out.hooks["framework"],
                                                  Str(extractKeyBenefit(arg.excerpt)))))
        /\ out.hookContent.cta = Str(LinkedinCta)
        /\ arg.content = Str(ScenarioContent) =>
              /\ out.hooks["statistic"] = Str(ScenarioContent)
              /\ out.hooks["result"] = Str(ScenarioContent)
              /\ out.hookContent.headline = Str(ScenarioFormatted)
              /\ out.hookContent.support = Str(ScenarioFormatted)

\* C9 witness: the scenario on linkedin
ScenarioOnLinkedin ==
    /\ op = "selected"
    /\ arg.platform = "linkedin"
    /\ arg.content = Str(ScenarioContent)
    /\ out.hookContent.headline = Str(ScenarioFormatted)
    /\ out.hookContent.cta = Str(LinkedinCta)

\* the positions of the lines of 20 to 80 characters, both included, that hold
\* no '?'
StrongLines(lines) ==
    {k \in 1..Len(lines) :
        /\ Len(lines[k]) >= StrongMin
        /\ Len(lines[k]) <= StrongMax
        /\ ~includes(lines[k], <<"?">>)}

\* C11: strong is absent when no trimmed content line has 20 to 80 characters
\* (20 and 80 included) without a '?', and is the first such line otherwise
StrongIsFirstInRange ==
    op # "content" =>
        LET lines == [k \in 1..Len(out.lines) |-> trim(out.lines[k])]
            hits  == StrongLines(lines)
        IN  IF hits # {}
            THEN out.hooks["strong"] = Str(lines[SetMin(hits)])
            ELSE out.hooks["strong"] = Undefined

=============================================================================
